---- MODULE Spec2Model ----
(***************************************************************************)
(* Bin2C (src/bin2c.c, the version with the $* / $@ label template, lines  *)
(* 280-592): one run of main() as a state machine.                         *)
(*                                                                         *)
(* C strings are sequences of one-character strings; the terminating NUL   *)
(* is implicit, except in the symbol-name buffer, which is modelled as     *)
(* memory cells.  Every fprintf call is one record [fmt, args]: the format *)
(* string of the call and its arguments as rendered by the conversions.    *)
(***************************************************************************)
EXTENDS Integers, Sequences, FiniteSets, TLC

\* ------------------------------------------------------------------ bounds
MaxArgs == 3
MaxName == 3
MaxLabel == 3
MaxLen == 36
MaxBytes == 5

\* ------------------------------------------------------- program constants
WORD_BITS == 32
EXIT_SUCCESS == 0
EXIT_FAILURE == 1
NOT_EXITED == 0 - 1

\* ---------------------------------------------------------------- C strings
NUL == "NUL"
NULL == <<"(null)">>
HEAP_PTR == <<"(heap)">>

Digits == <<"0", "1", "2", "3", "4", "5", "6", "7", "8", "9">>
HexChars == <<"0", "1", "2", "3", "4", "5", "6", "7", "8", "9",
              "a", "b", "c", "d", "e", "f">>
Letters == {"a", "b", "c", "d", "e", "f", "g", "h", "i", "j", "k", "l", "m",
            "n", "o", "p", "q", "r", "s", "t", "u", "v", "w", "x", "y", "z",
            "A", "B", "C", "D", "E", "F", "G", "H", "I", "J", "K", "L", "M",
            "N", "O", "P", "Q", "R", "S", "T", "U", "V", "W", "X", "Y", "Z"}

Min(a, b) == IF a < b THEN a ELSE b

\* s[i] of C, 0-based, for 0 <= i <= strlen(s)
At(s, i) == IF i < Len(s) THEN s[i + 1] ELSE NUL

\* the C string that starts at s + i
From(s, i) == SubSeq(s, i + 1, Len(s))

strlen(s) == Len(s)

strcmp_eq(s, t) == s = t

strncmp_eq(s, t, n) == SubSeq(s, 1, Min(n, Len(s))) = SubSeq(t, 1, Min(n, Len(t)))

\* index of the last c in s, -1 for a NULL result
strrchr(s, c) ==
    LET hits == {i \in 0..(Len(s) - 1) : s[i + 1] = c}
    IN IF hits = {} THEN -1 ELSE CHOOSE i \in hits : \A k \in hits : k <= i

\* index of the first character of s that is in set, -1 for a NULL result
strpbrk(s, set) ==
    LET hits == {i \in 0..(Len(s) - 1) : s[i + 1] \in set}
    IN IF hits = {} THEN -1 ELSE CHOOSE i \in hits : \A k \in hits : i <= k

\* index of the first occurrence of the two-character string <<a, b>>
strstr2(s, a, b) ==
    LET hits == {i \in 0..(Len(s) - 2) : s[i + 1] = a /\ s[i + 2] = b}
    IN IF hits = {} THEN -1 ELSE CHOOSE i \in hits : \A k \in hits : i <= k

DigitVal(c) == CHOOSE d \in 0..9 : Digits[d + 1] = c

isdigit(c) == \E d \in 1..10 : Digits[d] = c
isalpha(c) == c \in Letters
isalnum(c) == isalpha(c) \/ isdigit(c)

RECURSIVE atoi_digits(_, _)
atoi_digits(s, acc) ==
    IF s # <<>> /\ isdigit(s[1])
    THEN atoi_digits(Tail(s), 10 * acc + DigitVal(s[1]))
    ELSE acc

\* atoi: optional sign, then the leading decimal digits
atoi(s) ==
    IF At(s, 0) = "-" THEN 0 - atoi_digits(Tail(s), 0)
    ELSE IF At(s, 0) = "+" THEN atoi_digits(Tail(s), 0)
    ELSE atoi_digits(s, 0)

\* --------------------------------------------------------------- rendering
RECURSIVE DecDigits(_)
DecDigits(n) ==
    IF n < 10 THEN <<Digits[n + 1]>>
    ELSE Append(DecDigits(n \div 10), Digits[(n % 10) + 1])

\* A uint32_t is its 32 bits, least significant first (TLC's integers stop
\* short of 2^32).
Zero32 == [i \in 1..WORD_BITS |-> 0]

RECURSIVE Pow2(_)
Pow2(n) == IF n = 0 THEN 1 ELSE 2 * Pow2(n - 1)

\* variant: the byte is widened as a signed char
FromByteSigned(b) ==
    [i \in 1..WORD_BITS |-> IF i <= 8 THEN (b \div Pow2(i - 1)) % 2 ELSE b \div 128]

\* (uint32_t)b for a uint8_t b
FromByte(b) == [i \in 1..WORD_BITS |-> IF i <= 8 THEN (b \div Pow2(i - 1)) % 2 ELSE 0]

\* v << n, for 0 <= n < 32
ShiftLeft32(v, n) == [i \in 1..WORD_BITS |-> IF i > n THEN v[i - n] ELSE 0]

\* a | b
BitOr32(a, b) == [i \in 1..WORD_BITS |-> IF a[i] = 1 \/ b[i] = 1 THEN 1 ELSE 0]

\* hex digit k of v, digit 0 the least significant
Nibble(v, k) == v[4 * k + 1] + 2 * v[4 * k + 2] + 4 * v[4 * k + 3] + 8 * v[4 * k + 4]

\* the hex digits of v, most significant first, without leading zeros
RECURSIVE HexDigitsOf(_, _)
HexDigitsOf(v, k) ==
    IF k = 0 THEN <<HexChars[Nibble(v, 0) + 1]>>
    ELSE IF Nibble(v, k) = 0 /\ \A h \in (k + 1)..7 : Nibble(v, h) = 0
    THEN HexDigitsOf(v, k - 1)
    ELSE <<HexChars[Nibble(v, k) + 1]>> \o HexDigitsOf(v, k - 1)

RECURSIVE ZeroPad(_, _)
ZeroPad(ds, width) == IF Len(ds) >= width THEN ds ELSE ZeroPad(<<"0">> \o ds, width)

\* the text %0<width>x produces for a uint32_t
FormatHex(v, width) == ZeroPad(HexDigitsOf(v, 7), width)

Tok(f, a) == [fmt |-> f, args |-> a]

\* (x & 0x0f)
Low4(x) == x % 16

\* ------------------------------------------------------------------- state
VARIABLES
    argv,           \* argv[1..argc-1]
    content,        \* the bytes of the input file
    crlf_platform,  \* the C library translates CR LF in text mode (Windows)
    USE_BZ2,        \* the build defines USE_BZ2
    heap0,          \* what the heap holds where symbolname will be allocated
    out0,           \* the output file before the run
    pc, idx, fpos,
    f_inputname, f_outputname, symbolname, local_outputname,
    is_appending, is_textfile, is_mutable, use_macro, zero_terminate, bitsize,
    fullname, basename, symlen, mem, oob, label0,
    template0,      \* the label template that fpos pointed at before the substitution loop
    f_input, file_size, buf, uncompressed_size, cause,
    f_output, outfile, array_size,
    need_comma, need_newline, word, bits, bidx,
    stderr, exit_code, unknown_seen

envVars == <<argv, content, crlf_platform, USE_BZ2, heap0, out0>>
optVars == <<is_appending, is_textfile, is_mutable, use_macro, zero_terminate, bitsize>>
nameVars == <<f_inputname, f_outputname, symbolname, local_outputname>>
labelVars == <<fullname, basename, symlen, mem, oob, label0, template0>>
inVars == <<f_input, file_size, buf, uncompressed_size>>
outVars == <<f_output, outfile, array_size>>
packVars == <<need_comma, need_newline, word, bits, bidx>>
vars == <<envVars, pc, idx, fpos, nameVars, optVars, labelVars, inVars, cause, outVars,
          packVars, stderr, exit_code, unknown_seen>>

argc == Len(argv) + 1

\* ------------------------------------------------------------ input families
SeqsUpTo(S, n) == UNION {[1..k -> S] : k \in 0..n}

S_a == <<"-", "a">>
S_append == <<"-", "-", "a", "p", "p", "e", "n", "d">>
S_b == <<"-", "b">>
S_bits == <<"-", "-", "b", "i", "t", "s">>
S_d == <<"-", "d">>
S_define == <<"-", "-", "d", "e", "f", "i", "n", "e">>
S_h == <<"-", "h">>
S_help == <<"-", "-", "h", "e", "l", "p">>
S_q == <<"-", "?">>
S_l == <<"-", "l">>
S_label == <<"-", "-", "l", "a", "b", "e", "l">>
S_m == <<"-", "m">>
S_mutable == <<"-", "-", "m", "u", "t", "a", "b", "l", "e">>
S_t == <<"-", "t">>
S_text == <<"-", "-", "t", "e", "x", "t">>
S_z == <<"-", "z">>
S_zero == <<"-", "-", "z", "e", "r", "o">>
S_x == <<"-", "x">>
S_dot_h == <<".", "h">>
S_default_label == <<"$", "*">>
PathSeparators == {"\\", "/"}

ArgTokens == {S_a, S_b, <<"1", "6">>, <<"1", "2">>, S_h, S_l, S_z, S_x, <<"f">>}
NameChars == {"a", ".", "/"}
LabelChars == {"a", "1", "$", "*", "@"}
ByteSet == {0, 26, 255}
WidthArgs == {<<"8">>, <<"1", "6">>, <<"3", "2">>}
FixedName == <<"a", "b", ".", "c">>
FixedContent == <<65, 13, 10>>

HeapSize == MaxLabel + 2 * MaxName + 6
HeapSet == {[i \in 1..HeapSize |-> NUL],
            [i \in 1..HeapSize |-> "-"],
            [i \in 1..HeapSize |-> IF i % 3 = 0 THEN NUL ELSE IF i % 3 = 1 THEN "7" ELSE "-"]}
ZeroHeap == [i \in 1..HeapSize |-> NUL]

OldToken == Tok("old", <<>>)
ExistingOut == [exists |-> TRUE, data |-> <<OldToken>>]
AbsentOut == [exists |-> FALSE, data |-> <<>>]

Pattern(n) == [i \in 1..n |-> (37 * i + 11) % 256]

SampleLines ==
    { <<<<"f">>, S_append, S_define, S_mutable, S_text, S_zero, S_bits, <<"3", "2">>,
        S_label, <<"x">>>>,
      <<<<"f">>, <<"o">>, S_d, S_m, S_t, <<"-", "b", "1", "6">>, <<"-", "l", "$", "@">>>>,
      <<<<"f">>, S_q>>,
      <<<<"f">>, S_help>>,
      <<<<"f">>, <<"-", "-", "b", "i", "t", "s", "8">>, <<"-", "-", "l", "a", "b", "e", "l", "x">>>>,
      <<<<"f">>, S_bits>>,
      <<<<"f">>, S_label>>,
      <<<<"d", "/", "f", ".", "x">>, S_t>>,
      <<<<"a", "b", "c", "d", "e", ".", "x">>, S_l, <<"$", "*", "$", "*">>>>,
      <<<<"f">>, S_a>>,
      <<<<"f">>>> }
SampleContents == {<<>>, <<65, 13, 10, 66>>, <<13, 13, 10, 10, 13>>}

InitArgs ==
    /\ argv \in SeqsUpTo(ArgTokens, MaxArgs)
    /\ content = FixedContent
    /\ heap0 = ZeroHeap
    /\ out0 = ExistingOut
    /\ crlf_platform = FALSE /\ USE_BZ2 = FALSE

InitNames ==
    /\ \/ \E name \in SeqsUpTo(NameChars, MaxName) : argv = <<name>>
       \/ \E label \in SeqsUpTo(LabelChars, MaxLabel) : argv = <<FixedName, S_l, label>>
    /\ content = FixedContent
    /\ heap0 \in HeapSet
    /\ out0 = ExistingOut
    /\ crlf_platform = FALSE /\ USE_BZ2 = FALSE

InitLayout ==
    /\ \E w \in WidthArgs, z \in {<<>>, <<S_z>>} : argv = <<<<"f">>, S_b, w>> \o z
    /\ \E n \in 0..MaxLen : content = Pattern(n)
    /\ heap0 = ZeroHeap
    /\ out0 = ExistingOut
    /\ crlf_platform = FALSE /\ USE_BZ2 = FALSE

InitBytes ==
    /\ \E w \in WidthArgs, z \in {<<>>, <<S_z>>} : argv = <<<<"f">>, S_b, w>> \o z
    /\ content \in SeqsUpTo(ByteSet, MaxBytes)
    /\ heap0 = ZeroHeap
    /\ out0 = ExistingOut
    /\ crlf_platform = FALSE /\ USE_BZ2 = FALSE

InitSamples ==
    /\ argv \in SampleLines
    /\ content \in SampleContents
    /\ heap0 = ZeroHeap
    /\ out0 \in {ExistingOut, AbsentOut}
    /\ crlf_platform \in BOOLEAN /\ USE_BZ2 \in BOOLEAN

Init ==
    /\ InitArgs \/ InitNames \/ InitLayout \/ InitBytes \/ InitSamples
    /\ pc = "start" /\ idx = 1 /\ fpos = NULL
    /\ f_inputname = NULL /\ f_outputname = NULL /\ symbolname = NULL
    /\ local_outputname = FALSE
    /\ is_appending = FALSE /\ is_textfile = FALSE /\ is_mutable = FALSE
    /\ use_macro = FALSE /\ zero_terminate = FALSE /\ bitsize = 8
    /\ fullname = NULL /\ basename = NULL /\ symlen = 0 /\ mem = <<>>
    /\ oob = FALSE /\ label0 = NULL /\ template0 = NULL
    /\ f_input = "NULL" /\ file_size = 0 /\ buf = <<>> /\ uncompressed_size = 0
    /\ cause = "none"
    /\ f_output = "NULL" /\ outfile = out0 /\ array_size = 0
    /\ need_comma = FALSE /\ need_newline = FALSE /\ word = Zero32 /\ bits = 0 /\ bidx = 0
    /\ stderr = <<>> /\ exit_code = NOT_EXITED /\ unknown_seen = FALSE

\* ------------------------------------------------------------ fatal(), about()
MSG_USAGE == "Bin2C converts a binary file to a C array declaration. Usage: ..."
MSG_OPTIONS == "Options: ..."
MSG_INVALID_OPTION == "ERROR: Invalid option '%s'.\n\n"
MSG_BITSIZE == "ERROR: Invalid bit size (must be 8, 16 or 32).\n"
MSG_TOO_MANY == "ERROR: Too many filenames. Use 'bin2c --help' for usage information.\n"
MSG_NO_INPUT == "ERROR: No input file. Use 'bin2c --help' for usage information.\n"
MSG_ALLOC == "ERROR: Memory allocation error.\n"
MSG_OPEN_READ == "ERROR: Failed to open %s for reading.\n"
MSG_COMPRESS == "ERROR: Failed to compress data: error %i.\n"
MSG_OPEN_WRITE == "ERROR: Failed to open %s for writing\n"

\* fatal(msg, ...): one line on stderr, exit(1)
fatal(msg, args) ==
    /\ stderr' = Append(stderr, Tok(msg, args))
    /\ pc' = "exit"
    /\ exit_code' = EXIT_FAILURE

\* about(arg): usage or "Invalid option", the option list, exit(1)
about(arg) ==
    /\ stderr' = stderr \o <<IF arg = NULL THEN Tok(MSG_USAGE, <<>>)
                                ELSE Tok(MSG_INVALID_OPTION, <<arg>>),
                              Tok(MSG_OPTIONS, <<>>)>>
    /\ pc' = "exit"
    /\ exit_code' = EXIT_FAILURE

\* ------------------------------------------------------- command line parsing
\* the branch of the if / else-if chain of the option parser that arg takes
OptionKind(a) ==
    IF strcmp_eq(a, S_a) \/ strcmp_eq(a, S_append) THEN "append"
    ELSE IF strncmp_eq(a, S_b, 2) \/ strncmp_eq(a, S_bits, 6) THEN "bits"
    ELSE IF strcmp_eq(a, S_d) \/ strcmp_eq(a, S_define) THEN "define"
    ELSE IF strcmp_eq(a, S_h) \/ strcmp_eq(a, S_help) \/ strcmp_eq(a, S_q) THEN "help"
    ELSE IF strncmp_eq(a, S_l, 2) \/ strncmp_eq(a, S_label, 7) THEN "label"
    ELSE IF strcmp_eq(a, S_m) \/ strcmp_eq(a, S_mutable) THEN "mutable"
    ELSE IF strcmp_eq(a, S_t) \/ strcmp_eq(a, S_text) THEN "text"
    ELSE IF strcmp_eq(a, S_z) \/ strcmp_eq(a, S_zero) THEN "zero"
    ELSE "none"

AtOption(kind) ==
    /\ pc = "parse" /\ idx < argc
    /\ At(argv[idx], 0) = "-"
    /\ OptionKind(argv[idx]) = kind

ValidBitsize(b) == b = 8 \/ b = 16 \/ b = 32

ParseStart ==
    /\ pc = "start"
    /\ IF argc <= 1 THEN about(NULL) ELSE /\ pc' = "parse" /\ UNCHANGED <<stderr, exit_code>>
    /\ UNCHANGED <<envVars, fpos, idx, nameVars, optVars, labelVars, inVars, cause, outVars,
                   packVars, unknown_seen>>

ParseFlag(kind) ==
    /\ AtOption(kind)
    /\ idx' = idx + 1
    /\ pc' = "parse"
    /\ unknown_seen' = (unknown_seen \/ kind = "none")
    /\ UNCHANGED <<envVars, fpos, nameVars, labelVars, inVars, cause, outVars, packVars,
                   stderr, exit_code>>

ParseAppend ==
    /\ ParseFlag("append")
    /\ is_appending' = TRUE
    /\ UNCHANGED <<is_textfile, is_mutable, use_macro, zero_terminate, bitsize>>

ParseDefine ==
    /\ ParseFlag("define")
    /\ use_macro' = TRUE
    /\ UNCHANGED <<is_appending, is_textfile, is_mutable, zero_terminate, bitsize>>

ParseMutable ==
    /\ ParseFlag("mutable")
    /\ is_mutable' = TRUE
    /\ UNCHANGED <<is_appending, is_textfile, use_macro, zero_terminate, bitsize>>

ParseText ==
    /\ ParseFlag("text")
    /\ is_textfile' = TRUE
    /\ UNCHANGED <<is_appending, is_mutable, use_macro, zero_terminate, bitsize>>

ParseZero ==
    /\ ParseFlag("zero")
    /\ zero_terminate' = TRUE
    /\ UNCHANGED <<is_appending, is_textfile, is_mutable, use_macro, bitsize>>

ParseHelp ==
    /\ AtOption("help")
    /\ about(NULL)
    /\ UNCHANGED <<envVars, fpos, idx, nameVars, optVars, labelVars, inVars, cause, outVars,
                   packVars, unknown_seen>>

ParseBits ==
    /\ AtOption("bits")
    /\ LET a == argv[idx]
           j == IF At(a, 1) = "-" THEN 6 ELSE 2
       IN IF isdigit(At(a, j)) \/ (At(a, j) = NUL /\ (idx + 1) < argc)
          THEN LET inl == isdigit(At(a, j))
                   b == IF inl THEN atoi(From(a, j)) ELSE atoi(argv[idx + 1])
               IN /\ bitsize' = b
                  /\ IF ValidBitsize(b)
                     THEN /\ idx' = (IF inl THEN idx ELSE idx + 1) + 1
                          /\ pc' = "parse"
                          /\ UNCHANGED <<stderr, exit_code>>
                     ELSE /\ fatal(MSG_BITSIZE, <<>>)
                          /\ idx' = IF inl THEN idx ELSE idx + 1
          ELSE /\ about(a)
               /\ UNCHANGED <<bitsize, idx>>
    /\ UNCHANGED <<envVars, fpos, nameVars, is_appending, is_textfile, is_mutable, use_macro,
                   zero_terminate, labelVars, inVars, cause, outVars, packVars, unknown_seen>>

ParseLabel ==
    /\ AtOption("label")
    /\ LET a == argv[idx]
           j == IF At(a, 1) = "-" THEN 7 ELSE 2
       IN IF At(a, j) # NUL
          THEN /\ symbolname' = From(a, j)
               /\ idx' = idx + 1
               /\ pc' = "parse"
               /\ UNCHANGED <<stderr, exit_code>>
          ELSE IF (idx + 1) < argc
          THEN /\ symbolname' = argv[idx + 1]
               /\ idx' = idx + 2
               /\ pc' = "parse"
               /\ UNCHANGED <<stderr, exit_code>>
          ELSE /\ about(a)
               /\ UNCHANGED <<symbolname, idx>>
    /\ UNCHANGED <<envVars, fpos, f_inputname, f_outputname, local_outputname, optVars,
                   labelVars, inVars, cause, outVars, packVars, unknown_seen>>

\* an argument that starts with '-' and matches no branch: nothing is done with it
ParseUnknown ==
    /\ ParseFlag("none")
    /\ UNCHANGED optVars

ParseFilename ==
    /\ pc = "parse" /\ idx < argc
    /\ At(argv[idx], 0) # "-"
    /\ IF f_inputname = NULL
       THEN /\ f_inputname' = argv[idx]
            /\ idx' = idx + 1 /\ pc' = "parse"
            /\ UNCHANGED <<f_outputname, stderr, exit_code>>
       ELSE IF f_outputname = NULL
       THEN /\ f_outputname' = argv[idx]
            /\ idx' = idx + 1 /\ pc' = "parse"
            /\ UNCHANGED <<f_inputname, stderr, exit_code>>
       ELSE /\ fatal(MSG_TOO_MANY, <<>>)
            /\ UNCHANGED <<f_inputname, f_outputname, idx>>
    /\ UNCHANGED <<envVars, fpos, symbolname, local_outputname, optVars, labelVars, inVars,
                   cause, outVars, packVars, unknown_seen>>

\* the loop ends; "No input file" check
CheckInput ==
    /\ pc = "parse" /\ ~(idx < argc)
    /\ IF f_inputname = NULL
       THEN fatal(MSG_NO_INPUT, <<>>)
       ELSE /\ pc' = "outname" /\ UNCHANGED <<stderr, exit_code>>
    /\ UNCHANGED <<envVars, fpos, idx, nameVars, optVars, labelVars, inVars, cause, outVars,
                   packVars, unknown_seen>>

\* ------------------------------------------------- default output file name
\* strcpy, strrchr('.'), strpbrk("\\/"), *ext = 0, strcat(".h")
DefaultOutput(name) ==
    LET ext == strrchr(name, ".")
    IN (IF ext # -1 /\ strpbrk(name, PathSeparators) = -1
        THEN SubSeq(name, 1, ext)
        ELSE name) \o S_dot_h

DefaultOutputName ==
    /\ pc = "outname"
    /\ IF f_outputname = NULL
       THEN \E malloc_ok \in BOOLEAN :
              IF malloc_ok
              THEN /\ f_outputname' = DefaultOutput(f_inputname)
                   /\ local_outputname' = TRUE
                   /\ pc' = "label"
                   /\ UNCHANGED <<stderr, exit_code, cause>>
              ELSE /\ fatal(MSG_ALLOC, <<>>)
                   /\ cause' = "oom"
                   /\ UNCHANGED <<f_outputname, local_outputname>>
       ELSE /\ pc' = "label"
            /\ UNCHANGED <<f_outputname, local_outputname, stderr, exit_code, cause>>
    /\ UNCHANGED <<envVars, fpos, idx, f_inputname, symbolname, optVars, labelVars, inVars,
                   outVars, packVars, unknown_seen>>

\* ------------------------------------------------------------- symbol name
\* while (strpbrk(fpos, "\\/") != NULL) fpos = strpbrk(fpos, "\\/") + 1;
RECURSIVE SkipDirectories(_)
SkipDirectories(name) ==
    IF strpbrk(name, PathSeparators) # -1
    THEN SkipDirectories(From(name, strpbrk(name, PathSeparators) + 1))
    ELSE name

\* ext = strrchr(basename, '.'); if (ext != NULL) *ext = 0;
RemoveExtension(name) ==
    IF strrchr(name, ".") # -1 THEN SubSeq(name, 1, strrchr(name, ".")) ELSE name

SymLen(template, base, full) ==
    strlen(template)
    + (IF strstr2(template, "$", "*") # -1 THEN strlen(base) ELSE 0)
    + (IF strstr2(template, "$", "@") # -1 THEN strlen(full) ELSE 0)

PrepareLabel ==
    /\ pc = "label"
    /\ \E malloc_ok \in BOOLEAN :
         IF malloc_ok
         THEN LET full == SkipDirectories(f_inputname)
                  base == RemoveExtension(full)
                  template == IF symbolname = NULL THEN S_default_label ELSE symbolname
              IN /\ fullname' = full
                 /\ basename' = base
                 /\ fpos' = template
                 /\ template0' = template
                 /\ symlen' = SymLen(template, base, full)
                 /\ symbolname' = HEAP_PTR
                 /\ mem' = [heap0 EXCEPT ![1] = NUL]
                 /\ pc' = "subst"
                 /\ UNCHANGED <<stderr, exit_code, cause>>
         ELSE /\ fatal(MSG_ALLOC, <<>>)
              /\ cause' = "oom"
              /\ UNCHANGED <<fullname, basename, fpos, template0, symlen, symbolname, mem>>
    /\ UNCHANGED <<envVars, idx, f_inputname, f_outputname, local_outputname, optVars,
                   oob, label0, inVars, outVars, packVars, unknown_seen>>

\* The symbol buffer: cells 0..symlen of m are the malloc'ed block, the cells
\* after it belong to the rest of the heap; an access past the modelled heap
\* faults.  st = [mem, oob, crash].
CLen(m) ==
    LET hits == {i \in 0..(Len(m) - 1) : m[i + 1] = NUL}
    IN IF hits = {} THEN Len(m) ELSE CHOOSE i \in hits : \A k \in hits : i <= k

CStr(m) == SubSeq(m, 1, CLen(m))

Store(st, alloc, i, c) ==
    IF st.crash THEN st
    ELSE IF i >= Len(st.mem) THEN [st EXCEPT !.crash = TRUE, !.oob = TRUE]
    ELSE [mem |-> [st.mem EXCEPT ![i + 1] = c],
          oob |-> st.oob \/ i >= alloc,
          crash |-> FALSE]

RECURSIVE StoreString(_, _, _, _)
StoreString(st, alloc, i, str) ==
    IF str = <<>> THEN Store(st, alloc, i, NUL)
    ELSE StoreString(Store(st, alloc, i, str[1]), alloc, i + 1, Tail(str))

\* strcat(symbolname, src)
strcat(st, alloc, src) ==
    IF st.crash THEN st ELSE StoreString(st, alloc, CLen(st.mem), src)

\* while (*fpos != 0) { "$*" -> basename, "$@" -> fullname, else copy one char }
RECURSIVE SubstituteLoop(_, _, _, _, _)
SubstituteLoop(st, alloc, template, base, full) ==
    IF template = <<>> \/ st.crash THEN st
    ELSE IF strncmp_eq(template, <<"$", "*">>, 2)
    THEN SubstituteLoop(strcat(st, alloc, base), alloc, From(template, 2), base, full)
    ELSE IF strncmp_eq(template, <<"$", "@">>, 2)
    THEN SubstituteLoop(strcat(st, alloc, full), alloc, From(template, 2), base, full)
    ELSE LET len == CLen(st.mem)
         IN SubstituteLoop(Store(Store(st, alloc, len, template[1]), alloc, len + 1, NUL),
                           alloc, From(template, 1), base, full)

Substitute ==
    /\ pc = "subst"
    /\ LET st == SubstituteLoop([mem |-> mem, oob |-> oob, crash |-> FALSE],
                                symlen + 1, fpos, basename, fullname)
       IN /\ mem' = st.mem
          /\ oob' = st.oob
          /\ label0' = CStr(st.mem)
          /\ pc' = IF st.crash THEN "crash" ELSE "sanitize"
    /\ fpos' = <<>>
    /\ fullname' = NULL /\ basename' = NULL
    /\ UNCHANGED <<envVars, idx, nameVars, optVars, symlen, template0, inVars, cause, outVars,
                   packVars, stderr, exit_code, unknown_seen>>

IsIdentStart(c) == isalpha(c) \/ c = "_"
IsIdentChar(c) == isalnum(c) \/ c = "_"

\* while (*ptr != 0) { if (!isalnum(*ptr) && *ptr != '_') *ptr = '_'; ptr++; }
RECURSIVE SanitizeLoop(_, _, _)
SanitizeLoop(st, alloc, ptr) ==
    IF st.crash THEN st
    ELSE IF ptr >= Len(st.mem) THEN [st EXCEPT !.crash = TRUE, !.oob = TRUE]
    ELSE LET seen == [st EXCEPT !.oob = st.oob \/ ptr >= alloc]
         IN IF seen.mem[ptr + 1] = NUL THEN seen
            ELSE SanitizeLoop(IF ~IsIdentChar(seen.mem[ptr + 1])
                              THEN Store(seen, alloc, ptr, "_") ELSE seen,
                              alloc, ptr + 1)

\* if (!isalpha(*ptr) && *ptr != '_') *ptr = '_';
SanitizeFirst(st, alloc) ==
    IF ~IsIdentStart(st.mem[1]) THEN Store(st, alloc, 0, "_") ELSE st

SanitizeString(st, alloc) == SanitizeLoop(SanitizeFirst(st, alloc), alloc, 0)

Sanitize ==
    /\ pc = "sanitize"
    /\ LET st == SanitizeString([mem |-> mem, oob |-> oob, crash |-> FALSE], symlen + 1)
       IN /\ mem' = st.mem
          /\ oob' = st.oob
          /\ pc' = IF st.crash THEN "crash" ELSE "open_in"
    /\ UNCHANGED <<envVars, fpos, idx, nameVars, optVars, fullname, basename, symlen, label0,
                   template0,
                   inVars, cause, outVars, packVars, stderr, exit_code, unknown_seen>>

\* -------------------------------------------------------------- input file
CR == 13
LF == 10

\* what fread delivers from a stream opened "rt" where the C library
\* translates line ends: a CR that is followed by LF is dropped
RECURSIVE TranslateText(_)
TranslateText(bytes) ==
    IF bytes = <<>> THEN <<>>
    ELSE IF Len(bytes) >= 2 /\ bytes[1] = CR /\ bytes[2] = LF
    THEN TranslateText(Tail(bytes))
    ELSE <<bytes[1]>> \o TranslateText(Tail(bytes))

StreamData == IF is_textfile /\ crlf_platform THEN TranslateText(content) ELSE content

\* calloc(n, 1) followed by fread(buf, n, 1, f) on a stream that holds data
ReadBuffer(n, data) == [i \in 1..n |-> IF i <= Len(data) THEN data[i] ELSE 0]

\* the results calloc(n, 1) can have: a block, NULL for lack of memory, and
\* for n = 0 also NULL by the C library's choice
CallocResults(n) == {"block", "oom"} \cup (IF n = 0 THEN {"calloc0"} ELSE {})

\* variant: the output file is opened together with the input file
OpenInputAndOutput ==
    /\ pc = "open_in"
    /\ f_output' = "open"
    /\ outfile' = [exists |-> TRUE, data |-> IF is_appending THEN outfile.data ELSE <<>>]
    /\ \E ok \in BOOLEAN :
         IF ok
         THEN /\ f_input' = "open"
              /\ pc' = "read"
              /\ UNCHANGED <<stderr, exit_code, cause>>
         ELSE /\ fatal(MSG_OPEN_READ, <<f_inputname>>)
              /\ cause' = "no_input"
              /\ UNCHANGED f_input
    /\ UNCHANGED <<envVars, fpos, idx, nameVars, optVars, labelVars, file_size, buf,
                   uncompressed_size, array_size, packVars, unknown_seen>>

OpenInput ==
    /\ pc = "open_in"
    /\ \E ok \in BOOLEAN :
         IF ok
         THEN /\ f_input' = "open"
              /\ pc' = "read"
              /\ UNCHANGED <<stderr, exit_code, cause>>
         ELSE /\ fatal(MSG_OPEN_READ, <<f_inputname>>)
              /\ cause' = "no_input"
              /\ UNCHANGED f_input
    /\ UNCHANGED <<envVars, fpos, idx, nameVars, optVars, labelVars, file_size, buf,
                   uncompressed_size, outVars, packVars, unknown_seen>>

ReadInput ==
    /\ pc = "read"
    /\ LET size == Len(content) + (IF zero_terminate THEN 1 ELSE 0)
       IN /\ file_size' = size
          /\ \E r \in CallocResults(size) :
               IF r = "block"
               THEN /\ buf' = ReadBuffer(size, StreamData)
                    /\ f_input' = "closed"
                    /\ pc' = IF USE_BZ2 THEN "compress" ELSE "open_out"
                    /\ UNCHANGED <<stderr, exit_code, cause>>
               ELSE /\ fatal(MSG_ALLOC, <<>>)
                    /\ cause' = r
                    /\ UNCHANGED <<buf, f_input>>
    /\ UNCHANGED <<envVars, fpos, idx, nameVars, optVars, labelVars, uncompressed_size,
                   outVars, packVars, unknown_seen>>

\* ------------------------------------------------------ compression (USE_BZ2)
\* BZ2_bzBuffToBuffCompress is a library call: its output is some byte block
BzOutputs == {[i \in 1..5 |-> (66 + 31 * i) % 256], [i \in 1..2 |-> 90 - i]}

Compress ==
    /\ pc = "compress"
    /\ \E r \in {"ok", "error", "assert", "param_error"} :
         CASE r = "ok" ->
                \E out \in BzOutputs :
                    /\ uncompressed_size' = file_size
                    /\ file_size' = Len(out)
                    /\ buf' = out
                    /\ pc' = "open_out"
                    /\ UNCHANGED <<stderr, exit_code, cause>>
           [] r = "assert" ->
                /\ pc' = "abort"
                /\ cause' = "oom"
                /\ UNCHANGED <<uncompressed_size, file_size, buf, stderr, exit_code>>
           [] OTHER ->
                /\ fatal(MSG_COMPRESS, <<>>)
                /\ cause' = IF r = "error" THEN "compress" ELSE "oom"
                /\ UNCHANGED <<uncompressed_size, file_size, buf>>
    /\ UNCHANGED <<envVars, fpos, idx, nameVars, optVars, labelVars, f_input, outVars,
                   packVars, unknown_seen>>

\* ------------------------------------------------------------- output file
\* variant: the output file is truncated in append mode too
OpenOutputAlwaysTruncates ==
    /\ pc = "open_out"
    /\ \E ok \in BOOLEAN :
         IF ok
         THEN /\ f_output' = "open"
              /\ outfile' = [exists |-> TRUE,
                             data |-> <<>>]
              /\ pc' = "header"
              /\ UNCHANGED <<stderr, exit_code, cause>>
         ELSE /\ fatal(MSG_OPEN_WRITE, <<f_outputname>>)
              /\ cause' = "no_output"
              /\ UNCHANGED <<f_output, outfile>>
    /\ UNCHANGED <<envVars, fpos, idx, nameVars, optVars, labelVars, inVars, array_size,
                   packVars, unknown_seen>>

OpenOutput ==
    /\ pc = "open_out"
    /\ \E ok \in BOOLEAN :
         IF ok
         THEN /\ f_output' = "open"
              /\ outfile' = [exists |-> TRUE,
                             data |-> IF is_appending THEN outfile.data ELSE <<>>]
              /\ pc' = "header"
              /\ UNCHANGED <<stderr, exit_code, cause>>
         ELSE /\ fatal(MSG_OPEN_WRITE, <<f_outputname>>)
              /\ cause' = "no_output"
              /\ UNCHANGED <<f_output, outfile>>
    /\ UNCHANGED <<envVars, fpos, idx, nameVars, optVars, labelVars, inVars, array_size,
                   packVars, unknown_seen>>

FMT_PREAMBLE == "/* generated by Bin2C */\n#include <stdint.h>"
FMT_BLANK == "\n\n"
FMT_CONST == "const "
FMT_ARRAY == "uint%u_t %s[%u] = {"
FMT_COMMA == ", "
FMT_NEWLINE == "\n\t"
FMT_HEX8 == "0x%02x"
FMT_HEX16 == "0x%04x"
FMT_HEX32 == "0x%08x"
FMT_CLOSE == "\n};\n\n"
FMT_SIZE_MACRO == "#define %s_size %u\n"
FMT_SIZE_CONST == "const unsigned int %s_size = %u;\n"
FMT_USIZE_MACRO == "#define %s_size_uncompressed %u\n"
FMT_USIZE_CONST == "const unsigned int %s_size_uncompressed = %u;\n"

fprintf(tokens) == outfile' = [outfile EXCEPT !.data = outfile.data \o tokens]

\* variant: the division rounds down
ArraySizeFloor(size, width) == size \div (width \div 8)

\* (file_size + ((bitsize >> 3) - 1)) / (bitsize >> 3)
ArraySize(size, width) == (size + ((width \div 8) - 1)) \div (width \div 8)

WriteHeader ==
    /\ pc = "header"
    /\ LET n == ArraySize(file_size, bitsize)
       IN /\ array_size' = n
          /\ fprintf((IF ~is_appending THEN <<Tok(FMT_PREAMBLE, <<>>)>> ELSE <<>>)
                     \o <<Tok(FMT_BLANK, <<>>)>>
                     \o (IF ~is_mutable THEN <<Tok(FMT_CONST, <<>>)>> ELSE <<>>)
                     \o <<Tok(FMT_ARRAY, <<DecDigits(bitsize), CStr(mem), DecDigits(n)>>)>>)
    /\ need_comma' = FALSE
    /\ need_newline' = TRUE
    /\ word' = Zero32
    /\ bits' = 0
    /\ bidx' = 0
    /\ pc' = IF ValidBitsize(bitsize) THEN "pack" ELSE "abort"
    /\ UNCHANGED <<envVars, fpos, idx, nameVars, optVars, labelVars, inVars, cause,
                   f_output, stderr, exit_code, unknown_seen>>

\* ------------------------------------------------------------ word packing
\* variant: the first byte of a group ends up most significant
AddByteBigEndian(w, byte, shift) == BitOr32(ShiftLeft32(w, 8), FromByte(byte))

\* word |= (uint32_t)buf[idx] << bits
AddByte(w, byte, shift) == BitOr32(w, ShiftLeft32(FromByte(byte), shift))

\* variant: the row test looks at idx, not idx + 1
RowEndsOffByOne(i) == Low4(i) = 0

\* need_newline = (((idx + 1) & 0x0f) == 0)
RowEnds(i) == Low4(i + 1) = 0

HexToken(w, width) ==
    IF width = 8 THEN <<Tok(FMT_HEX8, <<FormatHex(w, 2)>>)>>
    ELSE IF width = 16 THEN <<Tok(FMT_HEX16, <<FormatHex(w, 4)>>)>>
    ELSE IF width = 32 THEN <<Tok(FMT_HEX32, <<FormatHex(w, 8)>>)>>
    ELSE <<>>

\* variant: the separator follows each element
EmitWordCommaAfter(comma, newline, w, width) ==
    (IF newline THEN <<Tok(FMT_NEWLINE, <<>>)>> ELSE <<>>)
    \o HexToken(w, width)
    \o <<Tok(FMT_COMMA, <<>>)>>

\* the fprintf calls that write one array element
EmitWord(comma, newline, w, width) ==
    (IF comma THEN <<Tok(FMT_COMMA, <<>>)>> ELSE <<>>)
    \o (IF newline THEN <<Tok(FMT_NEWLINE, <<>>)>> ELSE <<>>)
    \o HexToken(w, width)

PackByte ==
    /\ pc = "pack" /\ bidx < file_size
    /\ LET w == AddByte(word, buf[bidx + 1], bits)
           b == bits + 8
       IN IF b > bitsize
          THEN /\ pc' = "abort"
               /\ word' = w /\ bits' = b
               /\ UNCHANGED <<outfile, need_comma, need_newline, bidx>>
          ELSE IF b = bitsize
          THEN /\ fprintf(EmitWord(need_comma, need_newline, w, bitsize))
               /\ word' = Zero32 /\ bits' = 0
               /\ need_comma' = TRUE
               /\ need_newline' = RowEnds(bidx)
               /\ bidx' = bidx + 1
               /\ pc' = "pack"
          ELSE /\ word' = w /\ bits' = b
               /\ bidx' = bidx + 1
               /\ pc' = "pack"
               /\ UNCHANGED <<outfile, need_comma, need_newline>>
    /\ UNCHANGED <<envVars, fpos, idx, nameVars, optVars, labelVars, inVars, cause,
                   f_output, array_size, stderr, exit_code, unknown_seen>>

\* after the loop: the partial word, if any
PackTail ==
    /\ pc = "pack" /\ ~(bidx < file_size)
    /\ IF bits > 0
       THEN fprintf(EmitWord(need_comma, need_newline, word, bitsize))
       ELSE UNCHANGED outfile
    /\ pc' = "footer"
    /\ UNCHANGED <<envVars, fpos, idx, nameVars, optVars, labelVars, inVars, cause,
                   f_output, array_size, packVars, stderr, exit_code, unknown_seen>>

WriteFooter ==
    /\ pc = "footer"
    /\ fprintf(<<Tok(FMT_CLOSE, <<>>),
                 Tok(IF use_macro THEN FMT_SIZE_MACRO ELSE FMT_SIZE_CONST,
                     <<CStr(mem), DecDigits(array_size)>>)>>
               \o (IF USE_BZ2
                   THEN <<Tok(IF use_macro THEN FMT_USIZE_MACRO ELSE FMT_USIZE_CONST,
                              <<CStr(mem), DecDigits(uncompressed_size)>>)>>
                   ELSE <<>>))
    /\ pc' = "close"
    /\ UNCHANGED <<envVars, fpos, idx, nameVars, optVars, labelVars, inVars, cause,
                   f_output, array_size, packVars, stderr, exit_code, unknown_seen>>

\* fclose(f_output); free(buf); ...; return 0
Finish ==
    /\ pc = "close"
    /\ f_output' = "closed"
    /\ buf' = <<>>
    /\ pc' = "exit"
    /\ exit_code' = EXIT_SUCCESS
    /\ UNCHANGED <<envVars, fpos, idx, nameVars, optVars, labelVars, f_input, file_size,
                   uncompressed_size, cause, outfile, array_size, packVars, stderr,
                   unknown_seen>>

Next ==
    \/ ParseStart \/ ParseAppend \/ ParseBits \/ ParseDefine \/ ParseHelp
    \/ ParseLabel \/ ParseMutable \/ ParseText \/ ParseZero \/ ParseUnknown
    \/ ParseFilename \/ CheckInput
    \/ DefaultOutputName \/ PrepareLabel \/ Substitute \/ Sanitize
    \/ OpenInput \/ ReadInput \/ Compress
    \/ OpenOutput \/ WriteHeader \/ PackByte \/ PackTail \/ WriteFooter \/ Finish

Spec == Init /\ [][Next]_vars

\* ======================================================================
\* Properties
\* ======================================================================
\* what this run has written to the output file
Written ==
    IF f_output = "NULL" THEN <<>>
    ELSE IF is_appending THEN SubSeq(outfile.data, Len(out0.data) + 1, Len(outfile.data))
    ELSE outfile.data

IsHexTok(t) == t.fmt \in {FMT_HEX8, FMT_HEX16, FMT_HEX32}

ArrayTokAt == {i \in 1..Len(Written) : Written[i].fmt = FMT_ARRAY}
CloseTokAt == {i \in 1..Len(Written) : Written[i].fmt = FMT_CLOSE}
SizeTokAt == {i \in 1..Len(Written) : Written[i].fmt \in {FMT_SIZE_MACRO, FMT_SIZE_CONST}}

\* the tokens between "... = {" and the closing brace
Body ==
    LET written == Written
        arr == {i \in 1..Len(written) : written[i].fmt = FMT_ARRAY}
        cls == {i \in 1..Len(written) : written[i].fmt = FMT_CLOSE}
    IN IF arr = {} THEN <<>>
       ELSE LET a == CHOOSE i \in arr : TRUE
                z == IF cls = {} THEN Len(written) + 1 ELSE CHOOSE i \in cls : TRUE
            IN SubSeq(written, a + 1, z - 1)

HexPositionsOf(body) == {i \in 1..Len(body) : IsHexTok(body[i])}
BodyWords == SelectSeq(Body, IsHexTok)
\* 0-based index of the array element written at position i, hexpos being the
\* positions of the elements
WordIndexIn(hexpos, i) == Cardinality({j \in hexpos : j < i})

BytesPerWord == bitsize \div 8
Packing == pc \in {"pack", "footer", "close"}
Written_Done == pc = "exit" /\ exit_code = EXIT_SUCCESS

RECURSIVE DecValue(_)
DecValue(ds) ==
    IF ds = <<>> THEN 0
    ELSE 10 * DecValue(SubSeq(ds, 1, Len(ds) - 1)) + DigitVal(ds[Len(ds)])

\* ceil(len / per) without the code's rounding expression
CeilDiv(len, per) == CHOOSE n \in 0..len : n * per >= len /\ (n = 0 \/ (n - 1) * per < len)

EffectiveLength == Len(content) + (IF zero_terminate THEN 1 ELSE 0)

LowerHex == <<"0", "1", "2", "3", "4", "5", "6", "7", "8", "9", "a", "b", "c", "d", "e", "f">>
Hex2(b) == <<LowerHex[(b \div 16) + 1], LowerHex[(b % 16) + 1]>>
\* byte j (0-based) of the packed buffer, 0 past its end
BufByte(j) == IF j < file_size THEN buf[j + 1] ELSE 0

\* the digits of sum_i byte[k*per + i] * 256^i, written with 2*per hex digits
RECURSIVE ExpectedDigits(_, _)
ExpectedDigits(k, i) ==
    IF i < 0 THEN <<>>
    ELSE Hex2(BufByte(k * BytesPerWord + i)) \o ExpectedDigits(k, i - 1)

\* C2: the k-th word written is 0x followed by the 2, 4 or 8 lowercase hex
\* digits of the little-endian value of bytes k*(w/8) .. k*(w/8)+(w/8)-1 of
\* the buffer, bytes past the end counting as 0.
C2_LittleEndianWords ==
    Packing =>
        LET words == BodyWords
        IN \A k \in 0..(Len(words) - 1) :
            /\ words[k + 1].fmt = (IF bitsize = 8 THEN FMT_HEX8
                                   ELSE IF bitsize = 16 THEN FMT_HEX16 ELSE FMT_HEX32)
            /\ words[k + 1].args = <<ExpectedDigits(k, BytesPerWord - 1)>>
            /\ Len(words[k + 1].args[1]) = bitsize \div 4

C2_Witness ==
    /\ pc = "close" /\ bitsize = 32 /\ file_size = 5
    /\ buf = <<26, 255, 0, 255, 26>>
    /\ BodyWords[1].args[1] = <<"f", "f", "0", "0", "f", "f", "1", "a">>
    /\ BodyWords[2].args[1] = <<"0", "0", "0", "0", "0", "0", "1", "a">>

HexDigitValue(c) == CHOOSE d \in 0..15 : LowerHex[d + 1] = c

\* the bytes a reader gets back from one word's digits, least significant first
RECURSIVE UnpackWord(_)
UnpackWord(ds) ==
    IF Len(ds) < 2 THEN <<>>
    ELSE <<16 * HexDigitValue(ds[Len(ds) - 1]) + HexDigitValue(ds[Len(ds)])>>
         \o UnpackWord(SubSeq(ds, 1, Len(ds) - 2))

RECURSIVE UnpackAll(_)
UnpackAll(ws) ==
    IF ws = <<>> THEN <<>> ELSE UnpackWord(ws[1].args[1]) \o UnpackAll(Tail(ws))

\* C3: unpacking the written words little-endian gives the buffer back in its
\* first L bytes, and only zero bytes after them.
C3_RoundTrip ==
    pc \in {"footer", "close"} =>
        LET bytes == UnpackAll(BodyWords)
        IN /\ Len(bytes) >= file_size
           /\ Len(bytes) < file_size + BytesPerWord
           /\ SubSeq(bytes, 1, file_size) = buf
           /\ \A i \in (file_size + 1)..Len(bytes) : bytes[i] = 0

C3_Witness ==
    /\ pc = "close" /\ bitsize = 16 /\ buf = <<255, 26, 255>>
    /\ UnpackAll(BodyWords) = <<255, 26, 255, 0>>

\* C4: a line break token directly precedes the word with index k exactly
\* when k * (w/8), the bytes consumed before it, is a multiple of 16, that is
\* when k is a multiple of 16 / (w/8); line breaks occur nowhere else.
C4_RowBreaks ==
    Packing \/ Written_Done =>
        LET body == Body
            hexpos == HexPositionsOf(body)
        IN /\ \A i \in hexpos :
                 LET k == WordIndexIn(hexpos, i)
                     broken == i > 1 /\ body[i - 1].fmt = FMT_NEWLINE
                 IN /\ broken <=> (k * BytesPerWord) % 16 = 0
                    /\ broken <=> k % (16 \div BytesPerWord) = 0
           /\ \A i \in 1..Len(body) :
                 body[i].fmt = FMT_NEWLINE => (i + 1) \in hexpos

C4_Witness ==
    /\ Written_Done /\ bitsize = 32 /\ file_size = 33
    /\ Len(BodyWords) = 9
    /\ LET body == Body
       IN {i \in 1..Len(body) : body[i].fmt = FMT_NEWLINE} = {1, 10, 19}

\* C5: the first word has no comma before it, every later word (the final
\* partial one too) has exactly one ", " before it, and nothing follows the
\* last word.
C5_Commas ==
    Packing \/ Written_Done =>
        LET body == Body
            hexpos == HexPositionsOf(body)
        IN /\ \A i \in hexpos :
                 LET j == IF i > 1 /\ body[i - 1].fmt = FMT_NEWLINE THEN i - 2 ELSE i - 1
                 IN IF WordIndexIn(hexpos, i) = 0
                    THEN j = 0
                    ELSE /\ j >= 2
                         /\ body[j].fmt = FMT_COMMA
                         /\ IsHexTok(body[j - 1])
           /\ \A i \in 1..Len(body) :
                 body[i].fmt = FMT_COMMA =>
                     /\ i < Len(body)
                     /\ IsHexTok(body[i + 1]) \/ body[i + 1].fmt = FMT_NEWLINE
           /\ body # <<>> => IsHexTok(body[Len(body)])

C5_Witness ==
    /\ Written_Done /\ bitsize = 16 /\ file_size = 3
    /\ LET body == Body
       IN /\ Len(body) = 4
          /\ body[1].fmt = FMT_NEWLINE /\ IsHexTok(body[2])
          /\ body[3].fmt = FMT_COMMA /\ IsHexTok(body[4])

\* C6: the output file is opened only after the arguments were accepted, the
\* input was read and closed and (with USE_BZ2) compressed; a run that ends in
\* any fatal error other than the failure to open the output file leaves the
\* output file as it was: not created, not truncated, not appended to.
C6_OutputOpenedLast ==
    /\ (f_output # "NULL" \/ outfile # out0) =>
          /\ cause = "none" /\ stderr = <<>>
          /\ f_inputname # NULL /\ ValidBitsize(bitsize)
          /\ f_input = "closed"
          /\ pc \in {"header", "pack", "footer", "close", "exit"}
    /\ (pc \in {"exit", "abort", "crash"} /\ exit_code # EXIT_SUCCESS /\ cause # "no_output") =>
          /\ f_output = "NULL"
          /\ outfile = out0

C6_Witness ==
    /\ pc = "exit" /\ exit_code = EXIT_FAILURE
    /\ cause = "compress" /\ f_input = "closed"
    /\ out0 = ExistingOut /\ outfile = out0 /\ ~is_appending

\* C7 (as claimed): an argument that starts with '-' and is no recognized
\* option ends the run at once with status 1 and a diagnostic, the input
\* unread and the output untouched.
C7_UnknownOptionIsFatal ==
    unknown_seen =>
        /\ pc = "exit" /\ exit_code = EXIT_FAILURE
        /\ stderr # <<>>
        /\ f_input = "NULL" /\ outfile = out0

IsLegalIdentifier(str) ==
    /\ str # <<>>
    /\ IsIdentStart(str[1])
    /\ \A i \in 1..Len(str) : IsIdentChar(str[i])

\* C8 (as claimed): sanitizing the substituted label, the empty one
\* included, gives a legal identifier of the same length in which legal
\* characters are kept and illegal ones are '_'.
C8_SanitizeKeepsLength ==
    (label0 # NULL /\ pc \notin {"sanitize"}) =>
        LET name == CStr(mem)
        IN /\ pc # "crash"
           /\ Len(name) = Len(label0)
           /\ IsLegalIdentifier(name)
           /\ \A i \in 1..Len(label0) :
                 name[i] = IF (IF i = 1 THEN IsIdentStart(label0[i]) ELSE IsIdentChar(label0[i]))
                           THEN label0[i] ELSE "_"

\* the name the documentation promises: directory kept, the extension of the
\* file part replaced by ".h", ".h" appended when there is none
ReplaceExtension(name) ==
    LET file == SkipDirectories(name)
        dir == SubSeq(name, 1, Len(name) - Len(file))
    IN dir \o RemoveExtension(file) \o S_dot_h

\* C9 (as claimed): the generated output name is the input name with its
\* extension replaced by ".h", whatever directory part the name has.
C9_DefaultOutputReplacesExtension ==
    local_outputname => f_outputname = ReplaceExtension(f_inputname)

\* C10 (as claimed): an empty input without --zero, opened successfully and
\* with memory and the output file available, is converted with exit status
\* 0 into an array of 0 elements with an empty body and size 0.
C10_EmptyInputSucceeds ==
    ( /\ content = <<>> /\ ~zero_terminate /\ ~USE_BZ2
      /\ f_input # "NULL"
      /\ cause \notin {"oom", "no_output"}
      /\ pc = "exit" ) =>
        /\ exit_code = EXIT_SUCCESS
        /\ stderr = <<>>
        /\ Body = <<>>
        /\ Written[CHOOSE i \in ArrayTokAt : TRUE].args[3] = <<"0">>
        /\ Written[CHOOSE i \in SizeTokAt : TRUE].args[2] = <<"0">>

\* the input has been read into buf and buf is still the loader's buffer
ReadDone ==
    \/ pc = "compress"
    \/ ~USE_BZ2 /\ pc \in {"open_out", "header", "pack", "footer", "close"}

\* bytes without every CR that is directly followed by LF
WithoutCRBeforeLF(bytes) ==
    LET keep == {i \in 1..Len(bytes) :
                    ~(bytes[i] = CR /\ i < Len(bytes) /\ bytes[i + 1] = LF)}
        nth(k) == CHOOSE i \in keep : Cardinality({j \in keep : j < i}) = k - 1
    IN [k \in 1..Cardinality(keep) |-> bytes[nth(k)]]

\* the bytes of the file as the chosen open mode delivers them
FileBytes == IF is_textfile /\ crlf_platform THEN WithoutCRBeforeLF(content) ELSE content

\* C11 (as claimed): with --zero the buffer is the file's bytes followed by
\* exactly one 0x00 byte and is one byte longer than the file; without --zero
\* it is the file's bytes and nothing else.
C11_ZeroTerminator ==
    ReadDone =>
        /\ buf = FileBytes \o (IF zero_terminate THEN <<0>> ELSE <<>>)
        /\ file_size = Len(buf)

\* C14 (as claimed): in text mode the packed buffer is the file content
\* without the CRs that precede an LF, its length is the length after the
\* removal, and where the C library does not translate line ends the buffer
\* is the one binary mode gives.
C14_TextModeStripsCR ==
    LET terminator == IF zero_terminate THEN <<0>> ELSE <<>>
        stripped   == WithoutCRBeforeLF(content)
    IN (ReadDone /\ is_textfile) =>
        /\ crlf_platform =>
              buf = stripped \o terminator /\ file_size = Len(stripped) + Len(terminator)
        /\ ~crlf_platform =>
              buf = content \o terminator /\ file_size = Len(content) + Len(terminator)

PreambleTok == Tok(FMT_PREAMBLE, <<>>)

HeaderWritten == f_output # "NULL" /\ pc # "header"

\* C12: in append mode the previous content of the output file stays as an
\* unchanged prefix and no preamble is written after it; in overwrite mode
\* the previous content is gone and the file starts with the preamble. The
\* preamble is written exactly when the run is not appending.
C12_AppendKeepsPrefix ==
    LET d   == outfile.data
        old == out0.data
        preambles == {i \in 1..Len(d) : d[i] = PreambleTok}
    IN f_output # "NULL" =>
         /\ is_appending =>
               /\ Len(d) >= Len(old)
               /\ SubSeq(d, 1, Len(old)) = old
               /\ preambles = {}
         /\ ~is_appending =>
               /\ \A i \in 1..Len(d) : d[i] # OldToken
               /\ HeaderWritten => (Len(d) >= 1 /\ preambles = {1})
               /\ ~HeaderWritten => d = <<>>

C12_Witness ==
    /\ pc = "exit" /\ exit_code = EXIT_SUCCESS
    /\ is_appending /\ out0 = ExistingOut
    /\ Len(outfile.data) > 1 /\ outfile.data[1] = OldToken
    /\ \E i \in 2..Len(outfile.data) : outfile.data[i].fmt = FMT_ARRAY

\* C13 (as claimed): when the process exits, on the normal path and on every
\* fatal path, no stream that was opened is still open; the input is closed
\* before the output is opened; on the normal path the buffer is released.
C13_HandlesClosedOnExit ==
    /\ pc = "exit" => (f_input # "open" /\ f_output # "open")
    /\ f_output # "NULL" => f_input = "closed"
    /\ (pc = "exit" /\ exit_code = EXIT_SUCCESS) => buf = <<>>

\* the template with every "$*" replaced by base and every "$@" by full
RECURSIVE Expand(_, _, _)
Expand(t, base, full) ==
    IF t = <<>> THEN <<>>
    ELSE IF Len(t) >= 2 /\ t[1] = "$" /\ t[2] = "*"
    THEN base \o Expand(SubSeq(t, 3, Len(t)), base, full)
    ELSE IF Len(t) >= 2 /\ t[1] = "$" /\ t[2] = "@"
    THEN full \o Expand(SubSeq(t, 3, Len(t)), base, full)
    ELSE <<t[1]>> \o Expand(SubSeq(t, 2, Len(t)), base, full)

\* C15 (as claimed): for every label template and input name no access to
\* the symbol buffer leaves its symlen + 1 bytes, the buffer holds a string
\* that ends inside it, and that string is the template with every "$*"
\* replaced by the base name and every "$@" by the full name.
C15_SymbolBufferInBounds ==
    /\ ~oob
    /\ pc # "crash"
    /\ label0 # NULL =>
          LET full == SkipDirectories(f_inputname)
          IN /\ CLen(mem) <= symlen
             /\ label0 = Expand(template0, RemoveExtension(full), full)
====
